---------------------------- MODULE Spec2Model ----------------------------
(* mysql-dto-generator: the catalog reader (mysql-info.ts), the DTO         *)
(* generator (mysql-dto-generator.ts) and the command-line run (index.ts).  *)
(* Text is modelled by TLA+ strings, built with \o exactly as the template  *)
(* literals build it; SQL NULL / JS null / undefined is the value NULL.     *)
EXTENDS Integers, Sequences, FiniteSets, TLC

VARIABLES
  rIn,        \* SpecRender: the column / table / description handed to the emitters
  rOut,       \* SpecRender: what the emitters returned
  catalog,    \* information_schema: [schemata, tables, columns], sets of rows
  dbName,     \* MySqlInfoService.dbName
  qpc,        \* MySqlInfoService.query: position of the running call
  qcall,      \* the call in progress: [method, schemaName, text, values]
  rows,       \* query's local `rows`
  dbErr,      \* query's local `dbErr`
  client,     \* the connection checked out by the running call: [held, queries, releases]
  checkedOut, \* connections of the pool currently checked out
  driverRows, \* the result set the server produced for the running call's statement
  qresult,    \* how the last call ended: [kind: "none" | "returned" | "thrown", ...]
  loggerLog,  \* what MySqlInfoService._logger.error received
  calls,      \* number of calls made so far
  pc,         \* main / generate: position of the run
  argv,       \* the command line: [outdir, database]
  svc,        \* the info service the generator reads through (see ServiceReturn)
  pool,       \* the connection pool of main: [created, endCalls]
  exitCode,   \* main's local exitCode
  exitStatus, \* the status the process exited with, NULL-free: -1 while running
  consoleErrors, \* what console.error received in main's catch blocks
  thrown,     \* every error raised during the run, in order
  files,      \* the files writeSchemaFile wrote: [schemaName, content]
  schemaRows, \* generate: what schemata() returned
  idx,        \* generate: index of the schema row the loop is at
  output,     \* generate: the list being built
  generated,  \* main: [done, list], the list generate() returned
  widx,       \* main: index of the output being written
  curSchema,  \* _generateSchema: schemaName
  tableRows,  \* _generateSchema: what tables() returned
  columnRows, \* _generateSchema: what columns() returned
  queries     \* the catalog queries issued by the run: [method, schemaName, ok]

renderVars == <<rIn, rOut>>
infoVars == <<catalog, dbName, qpc, qcall, rows, dbErr, client, checkedOut, driverRows,
              qresult, loggerLog, calls>>
mainVars == <<pc, argv, svc, pool, exitCode, exitStatus, consoleErrors, thrown, files,
              schemaRows, idx, output, generated, widx, curSchema, tableRows, columnRows,
              queries>>
vars == <<renderVars, infoVars, mainVars>>

NULL == "<NULL>"

(***************************************************************************)
(* Bounds                                                                  *)
(***************************************************************************)
MaxCols == 2
MaxCalls == 2

(***************************************************************************)
(* Strings                                                                 *)
(***************************************************************************)
CharAt(s, i) == SubSeq(s, i, i)

Chars(s) == [i \in 1..Len(s) |-> CharAt(s, i)]

UpperCase == "ABCDEFGHIJKLMNOPQRSTUVWXYZ"
LowerCase == "abcdefghijklmnopqrstuvwxyz"
Digits == "0123456789"

IndexIn(alphabet, ch) ==
  IF \E k \in 1..Len(alphabet) : CharAt(alphabet, k) = ch
  THEN CHOOSE k \in 1..Len(alphabet) : CharAt(alphabet, k) = ch
  ELSE 0

ToLower(ch) ==
  IF IndexIn(UpperCase, ch) > 0 THEN CharAt(LowerCase, IndexIn(UpperCase, ch)) ELSE ch

IsDigit(ch) == IndexIn(Digits, ch) > 0

StartsAt(s, i, sub) ==
  /\ i + Len(sub) - 1 <= Len(s)
  /\ SubSeq(s, i, i + Len(sub) - 1) = sub

Contains(s, sub) == \E i \in 1..Len(s) : StartsAt(s, i, sub)

EndsWith(s, sub) == Len(sub) <= Len(s) /\ StartsAt(s, Len(s) - Len(sub) + 1, sub)

\* the text after the last line break
LastLine(s) ==
  LET brk == {i \in 1..Len(s) : CharAt(s, i) = "\n"}
      from == IF brk = {} THEN 1 ELSE 1 + CHOOSE i \in brk : \A j \in brk : j <= i
  IN  SubSeq(s, from, Len(s))

RECURSIVE Join(_, _)
Join(list, sep) ==
  IF list = <<>> THEN ""
  ELSE IF Len(list) = 1 THEN list[1]
  ELSE list[1] \o sep \o Join(Tail(list), sep)

\* `${value}` in a template literal
Interpolate(v) == IF v = NULL THEN "null" ELSE v

(***************************************************************************)
(* Regular expressions of the rule table: a pattern is a sequence of       *)
(* one-character literals, DigitsPlus (\d+) and AnyPlus (.+); the /i flag   *)
(* and the unanchored RegExp.test are part of Test.                         *)
(***************************************************************************)
DigitsPlus == "\\d+"
AnyPlus == ".+"

RECURSIVE MatchHere(_, _, _, _)
MatchHere(p, j, s, i) ==
  IF j > Len(p) THEN TRUE
  ELSE IF i > Len(s) THEN FALSE
  ELSE LET e == p[j]
           ch == CharAt(s, i)
       IN  IF e = DigitsPlus
           THEN IsDigit(ch) /\ (MatchHere(p, j + 1, s, i + 1) \/ MatchHere(p, j, s, i + 1))
           ELSE IF e = AnyPlus
           THEN ch # "\n" /\ (MatchHere(p, j + 1, s, i + 1) \/ MatchHere(p, j, s, i + 1))
           ELSE ToLower(ch) = ToLower(e) /\ MatchHere(p, j + 1, s, i + 1)

Test(re, s) == \E i \in 1..Len(s) : MatchHere(re, 1, s, i)

Rule(ts, re) == [ts |-> ts, re |-> re]

PrecisionScale == <<"(", DigitsPlus, ",", DigitsPlus, ")">>
Precision == <<"(", DigitsPlus, ")">>
Anything == <<"(", AnyPlus, ")">>

MySqlColumnTypePatterns == <<
  Rule("number", Chars("bigint")),
  Rule("number", Chars("bigint unsigned")),
  Rule("any",    Chars("binary") \o Precision),
  Rule("any",    Chars("blob")),
  Rule("string", Chars("char") \o Precision),
  Rule("string", Chars("datetime")),
  Rule("number", Chars("decimal") \o PrecisionScale),
  Rule("number", Chars("decimal") \o PrecisionScale \o Chars(" unsigned")),
  Rule("number", Chars("double")),
  Rule("number", Chars("double") \o PrecisionScale),
  Rule("string", Chars("enum") \o Anything),
  Rule("number", Chars("float")),
  Rule("number", Chars("float unsigned")),
  Rule("number", Chars("float") \o PrecisionScale),
  Rule("number", Chars("int")),
  Rule("number", Chars("int unsigned")),
  Rule("any",    Chars("json")),
  Rule("any",    Chars("longblob")),
  Rule("string", Chars("longtext")),
  Rule("any",    Chars("mediumblob")),
  Rule("number", Chars("mediumint unsigned")),
  Rule("string", Chars("mediumtext")),
  Rule("string", Chars("set") \o Anything),
  Rule("number", Chars("smallint")),
  Rule("number", Chars("smallint unsigned")),
  Rule("string", Chars("text")),
  Rule("string", Chars("time")),
  Rule("string", Chars("time") \o Precision),
  Rule("string", Chars("timestamp")),
  Rule("string", Chars("timestamp") \o Precision),
  Rule("number", Chars("tinyint")),
  Rule("number", Chars("tinyint unsigned")),
  Rule("number", Chars("tinyint") \o Precision),
  Rule("any",    Chars("varbinary") \o Precision),
  Rule("string", Chars("varchar") \o Precision) >>

\* the indexes of the rules whose pattern matches the description
MatchingRules(desc) ==
  {k \in 1..Len(MySqlColumnTypePatterns) : Test(MySqlColumnTypePatterns[k].re, desc)}

\* index of the first matching rule, 0 when none matches
FirstMatch(desc) ==
  LET matching == MatchingRules(desc)
  IN  IF matching = {} THEN 0
      ELSE CHOOSE k \in matching : \A m \in matching : k <= m

\* utils.getTsType: first matching rule's category, the opaque category when none matches
getTsType(c) ==
  LET first == FirstMatch(c.column_type)
  IN  IF first = 0 THEN "any" ELSE MySqlColumnTypePatterns[first].ts


(***************************************************************************)
(* Catalog rows.  character_maximum_length is a number, 0 standing for an   *)
(* absent one (null and 0 are both falsy where the code tests it).          *)
(***************************************************************************)
Column(schema, table, name, ordinal, ctype, dtype, maxLen, nullable, default, comment) ==
  [ table_schema |-> schema, table_name |-> table, column_name |-> name,
    ordinal_position |-> ordinal, column_type |-> ctype, data_type |-> dtype,
    character_maximum_length |-> maxLen, is_nullable |-> nullable,
    column_default |-> default, column_comment |-> comment ]

Table(schema, name, type, comment) ==
  [ table_schema |-> schema, table_name |-> name, table_type |-> type,
    table_comment |-> comment ]

Schema(name) == [ catalog_name |-> "def", schema_name |-> name ]

(***************************************************************************)
(* ORDER BY on names: lexicographic on the letters (the names of the model *)
(* are lower-case letters only, where every MySQL collation agrees).       *)
(***************************************************************************)
RECURSIVE StrLessFrom(_, _, _)
StrLessFrom(a, b, i) ==
  IF i > Len(b) THEN FALSE
  ELSE IF i > Len(a) THEN TRUE
  ELSE LET x == IndexIn(LowerCase, ToLower(CharAt(a, i)))
           y == IndexIn(LowerCase, ToLower(CharAt(b, i)))
       IN  IF x # y THEN x < y ELSE StrLessFrom(a, b, i + 1)

StrLess(a, b) == StrLessFrom(a, b, 1)

(***************************************************************************)
(* The statements of mysql-info.ts and what the server answers             *)
(***************************************************************************)
SystemSchemas == {"mysql", "sys", "information_schema", "performance_schema"}

sqlSelectSchemata == [name |-> "sqlSelectSchemata", placeholders |-> 0]
sqlSelectTables   == [name |-> "sqlSelectTables",   placeholders |-> 1]
sqlSelectColumns  == [name |-> "sqlSelectColumns",  placeholders |-> 1]

\* the driver puts values[k] in place of the k-th "?"; values beyond the last "?" are unused
Bind(text, values) == [k \in 1..text.placeholders |-> values[k]]

SchemataBefore(a, b) == StrLess(a.schema_name, b.schema_name)

TablesBefore(a, b) ==
  \/ StrLess(a.table_schema, b.table_schema)
  \/ a.table_schema = b.table_schema /\ StrLess(a.table_name, b.table_name)

\* ORDER BY table_name, column_name
ColumnsBefore(a, b) ==
  \/ StrLess(a.table_name, b.table_name)
  \/ a.table_name = b.table_name /\ StrLess(a.column_name, b.column_name)

\* whether row a comes before row b under the ORDER BY clause of the statement
RowBefore(text, a, b) ==
  IF text.name = "sqlSelectSchemata" THEN SchemataBefore(a, b)
  ELSE IF text.name = "sqlSelectTables" THEN TablesBefore(a, b)
  ELSE ColumnsBefore(a, b)

\* the rows of set S as a sequence in the order of the statement's ORDER BY
RECURSIVE OrderBy(_, _)
OrderBy(S, text) ==
  IF S = {} THEN <<>>
  ELSE LET first == CHOOSE r \in S : \A o \in S \ {r} : RowBefore(text, r, o)
       IN  <<first>> \o OrderBy(S \ {first}, text)

\* the result set of a statement with its placeholders bound to params
Execute(text, params, cat) ==
  IF text = sqlSelectSchemata
  THEN OrderBy({r \in cat.schemata :
                  /\ r.catalog_name = "def"
                  /\ r.schema_name # NULL /\ r.schema_name \notin SystemSchemas},
               text)
  ELSE IF text = sqlSelectTables
  THEN OrderBy({r \in cat.tables :
                  r.table_schema = params[1] /\ r.table_type = "BASE TABLE"},
               text)
  ELSE OrderBy({r \in cat.columns : r.table_schema = params[1]}, text)

\* the field metadata the driver returns beside the rows
FieldPackets(text) ==
  IF text = sqlSelectSchemata THEN <<"catalog_name", "schema_name">>
  ELSE IF text = sqlSelectTables
  THEN <<"table_schema", "table_name", "table_type", "table_comment">>
  ELSE <<"table_schema", "table_name", "column_name", "ordinal_position", "column_type",
         "data_type", "character_maximum_length", "is_nullable", "column_default",
         "column_comment">>

\* a JavaScript array held as a value (an element of another array)
JsArray(items) == [isArray |-> TRUE, items |-> items]

\* value.name: undefined (NULL) on an array, which has no such property
Prop(value, name) == IF "isArray" \in DOMAIN value THEN NULL ELSE value[name]

\* mysql2/promise: query() resolves to the pair [rows, fields]
DriverResult(text, resultSet) == << JsArray(resultSet), JsArray(FieldPackets(text)) >>

\* result.forEach(row => rows.push(row as TRow)), starting from rows = []
CollectRows(result) == [k \in 1..Len(result) |-> result[k]]

(***************************************************************************)
(* The catalogs and names the model runs on                                *)
(***************************************************************************)
CatalogShops == [
  schemata |-> { Schema("crm"), Schema("shop"), Schema("mysql"), Schema("information_schema") },
  tables |-> {
    Table("crm", "users", "BASE TABLE", ""),
    Table("shop", "users", "BASE TABLE", "Shop accounts"),
    Table("shop", "orders", "BASE TABLE", ""),
    Table("shop", "active", "VIEW", ""),
    Table("mysql", "user", "BASE TABLE", "") },
  columns |-> {
    Column("crm", "users", "id", 1, "int", "int", 0, "NO", NULL, ""),
    Column("crm", "users", "email", 2, "varchar(255)", "varchar", 255, "NO", NULL, ""),
    Column("shop", "users", "id", 1, "bigint unsigned", "bigint", 0, "NO", NULL, ""),
    Column("shop", "users", "bio", 2, "varchar(255)", "varchar", 255, "YES", NULL, "User biography"),
    Column("shop", "active", "id", 1, "bigint unsigned", "bigint", 0, "NO", "0", ""),
    Column("mysql", "user", "host", 1, "char(255)", "char", 255, "NO", "", "") } ]

CatalogSingle == [
  schemata |-> { Schema("shop"), Schema("sys") },
  tables |-> { Table("shop", "items", "BASE TABLE", "") },
  columns |-> {
    Column("shop", "items", "id", 1, "int unsigned", "int", 0, "NO", NULL, ""),
    Column("shop", "items", "name", 2, "varchar(64)", "varchar", 64, "YES", NULL, "") } ]

Catalogs == { CatalogShops, CatalogSingle }

SchemaNames == { "crm", "shop" }

(***************************************************************************)
(* MySqlInfoService / MySqlSchemaService                                   *)
(***************************************************************************)
mySqlMsgDbQueryError == "DB query error"
mySqlMsgDbConnError  == "DB connection error"

\* schemata(): this.query(sqlSelectSchemata, [this.dbName])
schemataCall(db) ==
  [method |-> "schemata", schemaName |-> NULL, text |-> sqlSelectSchemata, values |-> <<db>>]

\* MySqlSchemaService.tables(): this._is.query(sqlSelectTables, [this._is.dbName, this.schemaName])
tablesCall(db, schemaName) ==
  [method |-> "tables", schemaName |-> schemaName, text |-> sqlSelectTables,
   values |-> <<db, schemaName>>]

\* MySqlSchemaService.columns(): this._is.query(sqlSelectColumns, [this._is.dbName, this.schemaName])
columnsCall(db, schemaName) ==
  [method |-> "columns", schemaName |-> schemaName, text |-> sqlSelectColumns,
   values |-> <<db, schemaName>>]

NoClient == [held |-> FALSE, queries |-> 0, releases |-> 0]

InfoIdle ==
  /\ qpc = "idle"
  /\ qcall = schemataCall(dbName)
  /\ rows = <<>>
  /\ dbErr = NULL
  /\ client = NoClient
  /\ checkedOut = 0
  /\ driverRows = <<>>
  /\ qresult = [kind |-> "none"]
  /\ loggerLog = <<>>
  /\ calls = 0

RenderIdle ==
  /\ rIn = [op |-> "none"]
  /\ rOut = [done |-> FALSE]

MainIdle ==
  /\ pc = "begin"
  /\ pool = [created |-> FALSE, endCalls |-> 0]
  /\ exitCode = 0
  /\ exitStatus = -1
  /\ consoleErrors = <<>>
  /\ thrown = <<>>
  /\ files = <<>>
  /\ schemaRows = <<>>
  /\ idx = 0
  /\ output = <<>>
  /\ generated = [done |-> FALSE, list |-> <<>>]
  /\ widx = 0
  /\ curSchema = NULL
  /\ tableRows = <<>>
  /\ columnRows = <<>>
  /\ queries = <<>>

InfoInit ==
  /\ catalog \in Catalogs
  /\ dbName \in SchemaNames
  /\ InfoIdle
  /\ RenderIdle
  /\ argv = [outdir |-> "out", database |-> dbName]
  /\ svc = "driver"
  /\ MainIdle

\* a caller invokes schemata(), schema(S).tables() or schema(S).columns(); query() begins:
\* let rows = []; let dbErr = null
QueryBegin ==
  /\ qpc = "idle" /\ calls < MaxCalls
  /\ \E c \in {schemataCall(dbName)}
           \cup {tablesCall(dbName, n) : n \in SchemaNames}
           \cup {columnsCall(dbName, n) : n \in SchemaNames} : qcall' = c
  /\ rows' = <<>>
  /\ dbErr' = NULL
  /\ client' = NoClient
  /\ driverRows' = <<>>
  /\ qresult' = [kind |-> "none"]
  /\ calls' = calls + 1
  /\ qpc' = "getConnection"
  /\ UNCHANGED <<catalog, dbName, checkedOut, loggerLog>>
  /\ UNCHANGED <<renderVars, mainVars>>

\* const client = await this._db.getConnection()
GetConnectionOk ==
  /\ qpc = "getConnection"
  /\ client' = [held |-> TRUE, queries |-> 0, releases |-> 0]
  /\ checkedOut' = checkedOut + 1
  /\ qpc' = "clientQuery"
  /\ UNCHANGED <<catalog, dbName, qcall, rows, dbErr, driverRows, qresult, loggerLog, calls>>
  /\ UNCHANGED <<renderVars, mainVars>>

\* getConnection() rejects: outer catch logs mySqlMsgDbConnError and rethrows
GetConnectionFails ==
  /\ qpc = "getConnection"
  /\ dbErr' = "ECONNREFUSED"
  /\ loggerLog' = Append(loggerLog, <<mySqlMsgDbConnError, "ECONNREFUSED">>)
  /\ qresult' = [kind |-> "thrown", error |-> "ECONNREFUSED"]
  /\ qpc' = "idle"
  /\ UNCHANGED <<catalog, dbName, qcall, rows, client, checkedOut, driverRows, calls>>
  /\ UNCHANGED <<renderVars, mainVars>>

\* const result = await client.query(text, values); result.forEach(row => rows.push(row))
ClientQueryOk ==
  /\ qpc = "clientQuery"
  /\ LET resultSet == Execute(qcall.text, Bind(qcall.text, qcall.values), catalog)
         result == DriverResult(qcall.text, resultSet)
     IN  /\ driverRows' = resultSet
         /\ rows' = rows \o CollectRows(result)
  /\ client' = [client EXCEPT !.queries = @ + 1]
  /\ qpc' = "finally"
  /\ UNCHANGED <<catalog, dbName, qcall, dbErr, checkedOut, qresult, loggerLog, calls>>
  /\ UNCHANGED <<renderVars, mainVars>>

\* client.query() rejects: inner catch keeps the error and logs mySqlMsgDbQueryError
ClientQueryFails ==
  /\ qpc = "clientQuery"
  /\ client' = [client EXCEPT !.queries = @ + 1]
  /\ dbErr' = "ER_QUERY"
  /\ loggerLog' = Append(loggerLog, <<mySqlMsgDbQueryError, "ER_QUERY">>)
  /\ qpc' = "finally"
  /\ UNCHANGED <<catalog, dbName, qcall, rows, checkedOut, driverRows, qresult, calls>>
  /\ UNCHANGED <<renderVars, mainVars>>

ClientReleaseOnSuccessOnly ==
  /\ qpc = "finally"
  /\ client' = IF dbErr = NULL
               THEN [client EXCEPT !.held = FALSE, !.releases = @ + 1]
               ELSE client
  /\ checkedOut' = IF dbErr = NULL THEN checkedOut - 1 ELSE checkedOut
  /\ qpc' = "afterTry"
  /\ UNCHANGED <<catalog, dbName, qcall, rows, dbErr, driverRows, qresult, loggerLog, calls>>
  /\ UNCHANGED <<renderVars, mainVars>>

\* finally { client.release() }
ClientRelease ==
  /\ qpc = "finally"
  /\ client' = [client EXCEPT !.held = FALSE, !.releases = @ + 1]
  /\ checkedOut' = checkedOut - 1
  /\ qpc' = "afterTry"
  /\ UNCHANGED <<catalog, dbName, qcall, rows, dbErr, driverRows, qresult, loggerLog, calls>>
  /\ UNCHANGED <<renderVars, mainVars>>

\* if (dbErr) throw dbErr; return rows
QueryEnd ==
  /\ qpc = "afterTry"
  /\ qresult' = IF dbErr # NULL
                THEN [kind |-> "thrown", error |-> dbErr]
                ELSE [kind |-> "returned", rows |-> rows]
  /\ qpc' = "idle"
  /\ UNCHANGED <<catalog, dbName, qcall, rows, dbErr, client, checkedOut, driverRows,
                 loggerLog, calls>>
  /\ UNCHANGED <<renderVars, mainVars>>

InfoNext ==
  \/ QueryBegin
  \/ GetConnectionOk
  \/ GetConnectionFails
  \/ ClientQueryOk
  \/ ClientQueryFails
  \/ ClientRelease
  \/ QueryEnd

SpecInfo == InfoInit /\ [][InfoNext]_vars

(***************************************************************************)
(* C6: a connection that was checked out runs exactly one query and is     *)
(* released exactly once before query() returns or throws; a failed        *)
(* checkout holds none; never more than one connection is checked out and  *)
(* none is held between two calls.                                         *)
(***************************************************************************)
C6_ConnectionScopedToOneQuery ==
  /\ checkedOut \in {0, 1}
  /\ checkedOut = (IF client.held THEN 1 ELSE 0)
  /\ client.queries <= 1 /\ client.releases <= 1
  /\ qpc = "idle" =>
       /\ checkedOut = 0 /\ ~client.held
       /\ client.queries = client.releases
       /\ (qresult.kind = "returned" => client.queries = 1 /\ client.releases = 1)
       /\ (qresult.kind = "thrown" /\ qresult.error = "ER_QUERY") =>
             (client.queries = 1 /\ client.releases = 1)
       /\ (qresult.kind = "thrown" /\ qresult.error = "ECONNREFUSED") =>
             (client.queries = 0 /\ client.releases = 0)

C6_Witness ==
  /\ qpc = "idle" /\ calls = 2
  /\ qresult.kind = "thrown" /\ qresult.error = "ER_QUERY"
  /\ client.releases = 1 /\ checkedOut = 0

(***************************************************************************)
(* C10: on success query() returns exactly the rows of the statement's     *)
(* result set, one element per row and in result order, nothing else.      *)
(***************************************************************************)
C10_ReturnsResultRows ==
  (qpc = "idle" /\ qresult.kind = "returned") =>
     /\ Len(qresult.rows) = Len(driverRows)
     /\ \A k \in 1..Len(qresult.rows) :
          /\ "isArray" \notin DOMAIN qresult.rows[k]
          /\ qresult.rows[k] = driverRows[k]

(***************************************************************************)
(* C2: the rows fetched for schema S by tables() and columns() are the     *)
(* catalog's rows of S itself (table_schema = S).                          *)
(***************************************************************************)
C2_RowsOfOwnSchema ==
  (qpc = "finally" /\ dbErr = NULL /\ qcall.method \in {"tables", "columns"}) =>
     /\ \A k \in 1..Len(driverRows) : driverRows[k].table_schema = qcall.schemaName
     /\ driverRows = Execute(qcall.text, <<qcall.schemaName>>, catalog)

(***************************************************************************)
(* MySqlDtoGenerator: the column and table emitters                        *)
(***************************************************************************)
nullableByDefaultValue(c) == IF c.column_default = NULL THEN " | null" ELSE ""

\* let nullable = c.is_nullable === 'YES' ? ' | null' : ''
nullable(c) == IF c.is_nullable = "YES" THEN " | null" ELSE ""

\* let maxChars = c.character_maximum_length ? `(${...})` : ''
maxChars(c) ==
  IF c.character_maximum_length # 0
  THEN "(" \o ToString(c.character_maximum_length) \o ")"
  ELSE ""

\* columnComment ? `\n   * ${columnComment}` : ''
columnCommentText(c) ==
  LET columnComment == IF c.column_comment = NULL THEN "" ELSE c.column_comment
  IN  IF columnComment # "" THEN "\n   * " \o columnComment ELSE ""

_generateColumnDefinition(c) ==
  LET readonly == ""
      tsType == getTsType(c)
  IN  "\n  /**" \o columnCommentText(c)
      \o "\n   * Type: " \o Interpolate(c.data_type) \o maxChars(c)
      \o "\n   * Default value: " \o Interpolate(c.column_default)
      \o "\n   */"
      \o "\n  " \o readonly \o Interpolate(c.column_name) \o ": " \o tsType \o nullable(c) \o ";"

\* columns.map(column => ({ column, ts: this._generateColumnDefinition(column) }))
columnListAllOf(columns) ==
  [i \in 1..Len(columns) |-> [column |-> columns[i], ts |-> _generateColumnDefinition(columns[i])]]

columnListWritableWithoutDefaults(columnListAll) ==
  LET hasNoDefault(e) == e.column.column_default = NULL
      kept == SelectSeq(columnListAll, hasNoDefault)
  IN  [i \in 1..Len(kept) |-> kept[i].ts]

\* columnListAll.map(c => c.ts)
columnListWritableOf(columnListAll) ==
  [i \in 1..Len(columnListAll) |-> columnListAll[i].ts]

_generateTableModels(table, columns) ==
  LET tableName == IF table.table_name = NULL THEN "" ELSE table.table_name
      columnListAll == columnListAllOf(columns)
      columnListWritable == columnListWritableOf(columnListAll)
      tableComment == IF table.table_comment = NULL THEN "" ELSE table.table_comment
      comment == IF tableComment # "" THEN "\n * " \o tableComment ELSE ""
  IN  IF Len(columnListAll) = Len(columnListWritable)
      THEN LET columnListAllText ==
                 Join([i \in 1..Len(columnListAll) |-> columnListAll[i].ts], "\n")
           IN  "\n/**"
               \o "\n * Model for read & write operations on table " \o tableName \o comment
               \o "\n */"
               \o "\nexport interface " \o tableName \o "DtoWritable {"
               \o "\n" \o columnListAllText
               \o "\n}"
               \o "\nexport type " \o tableName \o "Dto = " \o tableName \o "DtoWritable;"
      ELSE LET columnListToWriteText == Join(columnListWritable, "\n")
               columnListReadOnly == [i \in 1..Len(columnListAll) |-> columnListAll[i].ts]
               columnListReadOnlyText == Join(columnListReadOnly, "\n")
           IN  "\n/**"
               \o "\n * Model for write operations on table " \o tableName \o comment
               \o "\n */"
               \o "\nexport interface " \o tableName \o "DtoWritable {"
               \o "\n" \o columnListToWriteText
               \o "\n}"
               \o "\n/**"
               \o "\n * Model for read operations on table " \o tableName
               \o "\n */"
               \o "\nexport interface " \o tableName \o "Dto extends " \o tableName \o "DtoWritable {"
               \o "\n" \o columnListReadOnlyText
               \o "\n}"

(***************************************************************************)
(* SpecRender: the emitters and the type mapper applied to inputs drawn    *)
(* from bounded sets                                                       *)
(***************************************************************************)
NativeTypes == {
  <<"bigint unsigned", "bigint", 0>>, <<"varchar(255)", "varchar", 255>>,
  <<"json", "json", 0>>, <<"year", "year", 0>>,
  <<"tinyint(1)", "tinyint", 0>>, <<"text", "text", 65535>> }

ColumnSpace ==
  { Column("shop", "users", n, 1, t[1], t[2], t[3], f, d, k) :
      n \in {"id", "bio"}, t \in NativeTypes, f \in {"YES", "NO"},
      d \in {NULL, "0"}, k \in {"", "User biography"} }

SampleColumns == {
  Column("shop", "users", "id", 1, "bigint unsigned", "bigint", 0, "NO", NULL, ""),
  Column("shop", "users", "bio", 2, "varchar(255)", "varchar", 255, "YES", NULL, "User biography"),
  Column("shop", "users", "age", 3, "smallint", "smallint", 0, "YES", "0", "") }

RECURSIVE SeqsUpTo(_, _)
SeqsUpTo(S, n) ==
  IF n = 0 THEN { <<>> }
  ELSE SeqsUpTo(S, n - 1) \cup
       { Append(q, x) : q \in {r \in SeqsUpTo(S, n - 1) : Len(r) = n - 1}, x \in S }

SampleTables == {
  Table("shop", "users", "BASE TABLE", ""),
  Table("shop", "orders", "BASE TABLE", "Customer orders"),
  Table("shop", NULL, "BASE TABLE", NULL) }

Descriptions == {
  "bigint", "bigint unsigned", "smallint", "smallint unsigned", "tinyint", "TINYINT(1)",
  "tinyint unsigned", "mediumint", "mediumint unsigned", "decimal(10,2)",
  "decimal(10,2) unsigned", "float", "float(7,3)", "float unsigned", "double",
  "double(8,2)", "int", "int unsigned", "varchar(255)", "char(3)", "text", "longtext",
  "json", "blob", "datetime", "timestamp", "time", "enum('a','b')", "binary(16)",
  "varbinary(16)", "year", "date", "binary" }

RenderInputs ==
  { [op |-> "column", column |-> c] : c \in ColumnSpace }
  \cup { [op |-> "table", table |-> t, columns |-> cols] :
           t \in SampleTables, cols \in SeqsUpTo(SampleColumns, MaxCols) }
  \cup { [op |-> "type", column_type |-> d] : d \in Descriptions }

RenderInit ==
  /\ rIn \in RenderInputs
  /\ rOut = [done |-> FALSE]
  /\ catalog = CatalogSingle
  /\ dbName = "shop"
  /\ InfoIdle
  /\ argv = [outdir |-> "out", database |-> dbName]
  /\ svc = "driver"
  /\ MainIdle

RenderColumn ==
  /\ rIn.op = "column" /\ ~rOut.done
  /\ rOut' = [done |-> TRUE, text |-> _generateColumnDefinition(rIn.column)]
  /\ UNCHANGED rIn
  /\ UNCHANGED <<infoVars, mainVars>>

RenderTable ==
  /\ rIn.op = "table" /\ ~rOut.done
  /\ rOut' = [done |-> TRUE, text |-> _generateTableModels(rIn.table, rIn.columns)]
  /\ UNCHANGED rIn
  /\ UNCHANGED <<infoVars, mainVars>>

MapType ==
  /\ rIn.op = "type" /\ ~rOut.done
  /\ rOut' = [done |-> TRUE, rule |-> FirstMatch(rIn.column_type), ts |-> getTsType(rIn)]
  /\ UNCHANGED rIn
  /\ UNCHANGED <<infoVars, mainVars>>

RenderNext == RenderColumn \/ RenderTable \/ MapType

SpecRender == RenderInit /\ [][RenderNext]_vars

(***************************************************************************)
(* C3: the rendered field's type is the mapped category, followed by the   *)
(* null union exactly when the nullability flag is "YES"; nothing else of  *)
(* the column decides the presence of the union.                           *)
(***************************************************************************)
C3_NullabilityFromFlag ==
  (rIn.op = "column" /\ rOut.done) =>
    LET c == rIn.column
        decl == LastLine(rOut.text)
    IN  /\ c.is_nullable = "YES" =>
             decl = "  " \o c.column_name \o ": " \o getTsType(c) \o " | null;"
        /\ c.is_nullable = "NO" =>
             decl = "  " \o c.column_name \o ": " \o getTsType(c) \o ";"
        /\ Contains(decl, " | null") <=> c.is_nullable = "YES"

C3_Witness ==
  /\ rIn.op = "column" /\ rOut.done
  /\ rIn.column.is_nullable = "NO"
  /\ rIn.column.column_default = NULL
  /\ rIn.column.column_comment # ""
  /\ EndsWith(rOut.text, ": string;")

RuleIndex(re) ==
  CHOOSE k \in 1..Len(MySqlColumnTypePatterns) : MySqlColumnTypePatterns[k].re = re

GenericNumericRules ==
  { RuleIndex(Chars("int")), RuleIndex(Chars("float")), RuleIndex(Chars("double")) }

SpecificNumericRules == {
  RuleIndex(Chars("bigint")), RuleIndex(Chars("smallint")), RuleIndex(Chars("tinyint")),
  RuleIndex(Chars("mediumint unsigned")), RuleIndex(Chars("decimal") \o PrecisionScale),
  RuleIndex(Chars("float") \o PrecisionScale), RuleIndex(Chars("double") \o PrecisionScale) }

(***************************************************************************)
(* C5: in the rule table every specific numeric subtype pattern stands     *)
(* before any bare generic pattern that matches the same description, so   *)
(* the description is decided by the specific rule, never the generic one. *)
(***************************************************************************)
C5_SpecificBeforeGeneric ==
  (rIn.op = "type" /\ rOut.done) =>
     \A sp \in SpecificNumericRules, g \in GenericNumericRules :
        (sp \in MatchingRules(rIn.column_type) /\ g \in MatchingRules(rIn.column_type)) =>
           (sp < g /\ rOut.rule # g)

(***************************************************************************)
(* C9: _generateTableModels always takes the unified branch: the writable  *)
(* subset is as long as the column list, one interface <t>DtoWritable      *)
(* holds every field in order and <t>Dto is its alias; never "extends".    *)
(***************************************************************************)
C9_AlwaysUnified ==
  (rIn.op = "table" /\ rOut.done) =>
    LET t == IF rIn.table.table_name = NULL THEN "" ELSE rIn.table.table_name
        all == columnListAllOf(rIn.columns)
        body == Join([i \in 1..Len(rIn.columns) |-> _generateColumnDefinition(rIn.columns[i])], "\n")
    IN  /\ Len(columnListWritableOf(all)) = Len(rIn.columns)
        /\ Contains(rOut.text, "\nexport interface " \o t \o "DtoWritable {\n" \o body \o "\n}\n")
        /\ EndsWith(rOut.text, "\nexport type " \o t \o "Dto = " \o t \o "DtoWritable;")
        /\ ~Contains(rOut.text, "Dto extends ")

C9_Witness ==
  /\ rIn.op = "table" /\ rOut.done
  /\ rIn.columns = <<>>
  /\ Contains(rOut.text, "export interface usersDtoWritable {\n\n}\nexport type usersDto = usersDtoWritable;")

(***************************************************************************)
(* main and MySqlDtoGenerator.generate                                     *)
(***************************************************************************)
Whitespace == {" ", "\t", "\n"}

\* String.prototype.trim
RECURSIVE Trim(_)
Trim(str) ==
  IF Len(str) = 0 THEN str
  ELSE IF CharAt(str, 1) \in Whitespace THEN Trim(SubSeq(str, 2, Len(str)))
  ELSE IF CharAt(str, Len(str)) \in Whitespace THEN Trim(SubSeq(str, 1, Len(str) - 1))
  ELSE str

\* value ?? ''
OrEmpty(v) == IF v = NULL THEN "" ELSE v

\* !value, for a string or an absent value
Falsy(v) == v = NULL \/ v = ""

\* process.exit(code): the status the parent sees is the low byte of the code
ExitStatusOf(code) == code % 256

\* The info service the generator reads through.  "driver" is MySqlInfoService.query as
\* written (CollectRows over the driver's result); "rows" is an info service that honours
\* the declared return type Promise<TRow[]>, one element per row of the result set.
ServiceReturn(call) ==
  LET resultSet == Execute(call.text, Bind(call.text, call.values), catalog)
  IN  IF svc = "driver"
      THEN CollectRows(DriverResult(call.text, resultSet))
      ELSE resultSet

\* what query() logs and throws when it fails: <<message logged, error>>
QueryFailures == { <<mySqlMsgDbConnError, "ECONNREFUSED">>, <<mySqlMsgDbQueryError, "ER_QUERY">> }

_generateCommonTypes ==
  [ schemaName |-> "_types",
    content |-> "\n// recursive JSON type; you can append nullable or not"
                \o "\nexport type JsonType = string | number | boolean | { [x: string]: JsonType } | Array<JsonType>;"
                \o "\n    " ]

\* columnRows.filter(c => c.table_name === tableRow.table_name)
columnsOfTable(colRows, tableRow) ==
  LET sameTable(c) == Prop(c, "table_name") = tableRow.table_name
  IN  SelectSeq(colRows, sameTable)

\* the loop of _generateSchema over tableRows, skipping the rows without a name
RECURSIVE modelListOf(_, _)
modelListOf(tblRows, colRows) ==
  IF tblRows = <<>> THEN <<>>
  ELSE LET tableRow == Head(tblRows)
       IN  IF Falsy(Prop(tableRow, "table_name"))
           THEN modelListOf(Tail(tblRows), colRows)
           ELSE <<_generateTableModels(tableRow, columnsOfTable(colRows, tableRow))>>
                \o modelListOf(Tail(tblRows), colRows)

\* the object _generateSchema returns, from the rows it fetched
schemaOutputOf(schemaName, tblRows, colRows) ==
  [ schemaName |-> schemaName,
    content |-> "\nimport { JsonType } from './_types';\n"
                \o Join(modelListOf(tblRows, colRows), "\n") \o "\n" ]

Init ==
  /\ catalog \in Catalogs
  /\ argv \in [outdir : {NULL, "  ", "out"}, database : {NULL, " ", "shop", "crm"}]
  /\ dbName = OrEmpty(argv.database)
  /\ svc \in {"driver", "rows"}
  /\ InfoIdle
  /\ RenderIdle
  /\ MainIdle

\* catch (err) { exitCode = -1; console.error(err); } of the inner try, then its finally
InnerCatch(err) ==
  /\ thrown' = Append(thrown, err)
  /\ exitCode' = -1
  /\ consoleErrors' = Append(consoleErrors, err)
  /\ pc' = "finally"

\* const outDir = ...trim(); if (outDir === '') throw ...; const dbPool = createPool(dbOptions)
MainParse ==
  /\ pc = "begin"
  /\ IF Trim(OrEmpty(argv.outdir)) = ""
     THEN /\ thrown' = Append(thrown, "Output directory is required")
          /\ exitCode' = -1
          /\ consoleErrors' = Append(consoleErrors, "Output directory is required")
          /\ pc' = "theEnd"
          /\ UNCHANGED pool
     ELSE /\ pool' = [pool EXCEPT !.created = TRUE]
          /\ pc' = "checkConnection"
          /\ UNCHANGED <<thrown, exitCode, consoleErrors>>
  /\ UNCHANGED <<argv, svc, exitStatus, files, schemaRows, idx, output, generated, widx,
                 curSchema, tableRows, columnRows, queries>>
  /\ UNCHANGED <<renderVars, infoVars>>

\* const rows = await dbPool.query('SELECT 1 AS success')
MainCheckConnectionOk ==
  /\ pc = "checkConnection"
  /\ pc' = "newInfoService"
  /\ UNCHANGED <<argv, svc, pool, exitCode, exitStatus, consoleErrors, thrown, files,
                 schemaRows, idx, output, generated, widx, curSchema, tableRows,
                 columnRows, queries>>
  /\ UNCHANGED <<renderVars, infoVars>>

MainCheckConnectionFails ==
  /\ pc = "checkConnection"
  /\ InnerCatch("ECONNREFUSED")
  /\ UNCHANGED <<argv, svc, pool, exitStatus, files, schemaRows, idx, output, generated,
                 widx, curSchema, tableRows, columnRows, queries>>
  /\ UNCHANGED <<renderVars, infoVars>>

\* new MySqlInfoService(dbPool, dbOptions.database ?? ''); new MySqlDtoGenerator(dbInfo)
MainNewInfoService ==
  /\ pc = "newInfoService"
  /\ IF Trim(dbName) = ""
     THEN InnerCatch("invalid database name")
     ELSE /\ pc' = "generate"
          /\ UNCHANGED <<thrown, exitCode, consoleErrors>>
  /\ UNCHANGED <<argv, svc, pool, exitStatus, files, schemaRows, idx, output, generated,
                 widx, curSchema, tableRows, columnRows, queries>>
  /\ UNCHANGED <<renderVars, infoVars>>

\* const schemaRows = await this._mySqlInfo.schemata(); output.push(this._generateCommonTypes())
GenerateSchemataOk ==
  /\ pc = "generate"
  /\ queries' = Append(queries, [method |-> "schemata", schemaName |-> NULL, ok |-> TRUE])
  /\ schemaRows' = ServiceReturn(schemataCall(dbName))
  /\ output' = Append(<<>>, _generateCommonTypes)
  /\ idx' = 1
  /\ pc' = "loop"
  /\ UNCHANGED <<argv, svc, pool, exitCode, exitStatus, consoleErrors, thrown, files,
                 generated, widx, curSchema, tableRows, columnRows>>
  /\ UNCHANGED <<renderVars, infoVars>>

GenerateSchemataFails ==
  /\ pc = "generate"
  /\ \E f \in QueryFailures :
       /\ loggerLog' = Append(loggerLog, f)
       /\ InnerCatch(f[2])
  /\ queries' = Append(queries, [method |-> "schemata", schemaName |-> NULL, ok |-> FALSE])
  /\ UNCHANGED <<argv, svc, pool, exitStatus, files, schemaRows, idx, output, generated,
                 widx, curSchema, tableRows, columnRows>>
  /\ UNCHANGED <<renderVars, catalog, dbName, qpc, qcall, rows, dbErr, client, checkedOut,
                 driverRows, qresult, calls>>

\* for (const schemaRow of schemaRows): if (!schemaRow.schema_name) continue
GenerateSkipRow ==
  /\ pc = "loop" /\ idx <= Len(schemaRows)
  /\ Falsy(Prop(schemaRows[idx], "schema_name"))
  /\ idx' = idx + 1
  /\ UNCHANGED <<pc, argv, svc, pool, exitCode, exitStatus, consoleErrors, thrown, files,
                 schemaRows, output, generated, widx, curSchema, tableRows, columnRows,
                 queries>>
  /\ UNCHANGED <<renderVars, infoVars>>

\* await this._generateSchema(schemaRow.schema_name): const schema = this._mySqlInfo.schema(schemaName)
GenerateEnterSchema ==
  /\ pc = "loop" /\ idx <= Len(schemaRows)
  /\ ~Falsy(Prop(schemaRows[idx], "schema_name"))
  /\ curSchema' = schemaRows[idx].schema_name
  /\ pc' = "tables"
  /\ UNCHANGED <<argv, svc, pool, exitCode, exitStatus, consoleErrors, thrown, files,
                 schemaRows, idx, output, generated, widx, tableRows, columnRows, queries>>
  /\ UNCHANGED <<renderVars, infoVars>>

\* const tableRows = await schema.tables()
SchemaTablesOk ==
  /\ pc = "tables"
  /\ queries' = Append(queries, [method |-> "tables", schemaName |-> curSchema, ok |-> TRUE])
  /\ tableRows' = ServiceReturn(tablesCall(dbName, curSchema))
  /\ pc' = "columns"
  /\ UNCHANGED <<argv, svc, pool, exitCode, exitStatus, consoleErrors, thrown, files,
                 schemaRows, idx, output, generated, widx, curSchema, columnRows>>
  /\ UNCHANGED <<renderVars, infoVars>>

SchemaTablesFails ==
  /\ pc = "tables"
  /\ \E f \in QueryFailures :
       /\ loggerLog' = Append(loggerLog, f)
       /\ InnerCatch(f[2])
  /\ queries' = Append(queries, [method |-> "tables", schemaName |-> curSchema, ok |-> FALSE])
  /\ UNCHANGED <<argv, svc, pool, exitStatus, files, schemaRows, idx, output, generated,
                 widx, curSchema, tableRows, columnRows>>
  /\ UNCHANGED <<renderVars, catalog, dbName, qpc, qcall, rows, dbErr, client, checkedOut,
                 driverRows, qresult, calls>>

\* const columnRows = await schema.columns()
SchemaColumnsOk ==
  /\ pc = "columns"
  /\ queries' = Append(queries, [method |-> "columns", schemaName |-> curSchema, ok |-> TRUE])
  /\ columnRows' = ServiceReturn(columnsCall(dbName, curSchema))
  /\ pc' = "emit"
  /\ UNCHANGED <<argv, svc, pool, exitCode, exitStatus, consoleErrors, thrown, files,
                 schemaRows, idx, output, generated, widx, curSchema, tableRows>>
  /\ UNCHANGED <<renderVars, infoVars>>

SchemaColumnsFails ==
  /\ pc = "columns"
  /\ \E f \in QueryFailures :
       /\ loggerLog' = Append(loggerLog, f)
       /\ InnerCatch(f[2])
  /\ queries' = Append(queries, [method |-> "columns", schemaName |-> curSchema, ok |-> FALSE])
  /\ UNCHANGED <<argv, svc, pool, exitStatus, files, schemaRows, idx, output, generated,
                 widx, curSchema, tableRows, columnRows>>
  /\ UNCHANGED <<renderVars, catalog, dbName, qpc, qcall, rows, dbErr, client, checkedOut,
                 driverRows, qresult, calls>>

SchemaEmitInFront ==
  /\ pc = "emit"
  /\ output' = <<schemaOutputOf(curSchema, tableRows, columnRows)>> \o output
  /\ idx' = idx + 1
  /\ pc' = "loop"
  /\ UNCHANGED <<argv, svc, pool, exitCode, exitStatus, consoleErrors, thrown, files,
                 schemaRows, generated, widx, curSchema, tableRows, columnRows, queries>>
  /\ UNCHANGED <<renderVars, infoVars>>

SchemaEmitAndWrite ==
  /\ pc = "emit"
  /\ output' = Append(output, schemaOutputOf(curSchema, tableRows, columnRows))
  /\ files' = Append(files, schemaOutputOf(curSchema, tableRows, columnRows))
  /\ idx' = idx + 1
  /\ pc' = "loop"
  /\ UNCHANGED <<argv, svc, pool, exitCode, exitStatus, consoleErrors, thrown,
                 schemaRows, generated, widx, curSchema, tableRows, columnRows, queries>>
  /\ UNCHANGED <<renderVars, infoVars>>

\* the table loop of _generateSchema, its return, and output.push(schemaOut) in generate
SchemaEmit ==
  /\ pc = "emit"
  /\ output' = Append(output, schemaOutputOf(curSchema, tableRows, columnRows))
  /\ idx' = idx + 1
  /\ pc' = "loop"
  /\ UNCHANGED <<argv, svc, pool, exitCode, exitStatus, consoleErrors, thrown, files,
                 schemaRows, generated, widx, curSchema, tableRows, columnRows, queries>>
  /\ UNCHANGED <<renderVars, infoVars>>

\* return output; const schemaOutputList = await generator.generate()
GenerateReturn ==
  /\ pc = "loop" /\ idx > Len(schemaRows)
  /\ generated' = [done |-> TRUE, list |-> output]
  /\ widx' = 1
  /\ pc' = "write"
  /\ UNCHANGED <<argv, svc, pool, exitCode, exitStatus, consoleErrors, thrown, files,
                 schemaRows, idx, output, curSchema, tableRows, columnRows, queries>>
  /\ UNCHANGED <<renderVars, infoVars>>

\* await writeSchemaFile(outDir, schemaOutput.schemaName, schemaOutput.content)
MainWriteOk ==
  /\ pc = "write" /\ widx <= Len(generated.list)
  /\ files' = Append(files, generated.list[widx])
  /\ widx' = widx + 1
  /\ UNCHANGED <<pc, argv, svc, pool, exitCode, exitStatus, consoleErrors, thrown,
                 schemaRows, idx, output, generated, curSchema, tableRows, columnRows,
                 queries>>
  /\ UNCHANGED <<renderVars, infoVars>>

MainWriteFails ==
  /\ pc = "write" /\ widx <= Len(generated.list)
  /\ InnerCatch("EACCES")
  /\ UNCHANGED <<argv, svc, pool, exitStatus, files, schemaRows, idx, output, generated,
                 widx, curSchema, tableRows, columnRows, queries>>
  /\ UNCHANGED <<renderVars, infoVars>>

\* the for loop over schemaOutputList ends; control reaches the finally block
MainWriteDone ==
  /\ pc = "write" /\ widx > Len(generated.list)
  /\ pc' = "finally"
  /\ UNCHANGED <<argv, svc, pool, exitCode, exitStatus, consoleErrors, thrown, files,
                 schemaRows, idx, output, generated, widx, curSchema, tableRows,
                 columnRows, queries>>
  /\ UNCHANGED <<renderVars, infoVars>>

MainFinallyOnSuccessOnly ==
  /\ pc = "finally"
  /\ pool' = IF exitCode = 0 THEN [pool EXCEPT !.endCalls = @ + 1] ELSE pool
  /\ pc' = "theEnd"
  /\ UNCHANGED <<argv, svc, exitCode, exitStatus, consoleErrors, thrown, files, schemaRows,
                 idx, output, generated, widx, curSchema, tableRows, columnRows, queries>>
  /\ UNCHANGED <<renderVars, infoVars>>

\* finally { dbPool.end(); }
MainFinally ==
  /\ pc = "finally"
  /\ pool' = [pool EXCEPT !.endCalls = @ + 1]
  /\ pc' = "theEnd"
  /\ UNCHANGED <<argv, svc, exitCode, exitStatus, consoleErrors, thrown, files, schemaRows,
                 idx, output, generated, widx, curSchema, tableRows, columnRows, queries>>
  /\ UNCHANGED <<renderVars, infoVars>>

\* console.info('the end!'); process.exit(exitCode)
MainExit ==
  /\ pc = "theEnd"
  /\ exitStatus' = ExitStatusOf(exitCode)
  /\ pc' = "exited"
  /\ UNCHANGED <<argv, svc, pool, exitCode, consoleErrors, thrown, files, schemaRows, idx,
                 output, generated, widx, curSchema, tableRows, columnRows, queries>>
  /\ UNCHANGED <<renderVars, infoVars>>

Next ==
  \/ MainParse
  \/ MainCheckConnectionOk
  \/ MainCheckConnectionFails
  \/ MainNewInfoService
  \/ GenerateSchemataOk
  \/ GenerateSchemataFails
  \/ GenerateSkipRow
  \/ GenerateEnterSchema
  \/ SchemaTablesOk
  \/ SchemaTablesFails
  \/ SchemaColumnsOk
  \/ SchemaColumnsFails
  \/ SchemaEmit
  \/ GenerateReturn
  \/ MainWriteOk
  \/ MainWriteFails
  \/ MainWriteDone
  \/ MainFinally
  \/ MainExit

Spec == Init /\ [][Next]_vars

NamedSchemaRows ==
  LET hasName(r) == ~Falsy(Prop(r, "schema_name"))
  IN  SelectSeq(schemaRows, hasName)

(***************************************************************************)
(* C1: generate() returns the '_types' output first, then one output per   *)
(* schema row that has a name, in the order of the rows; a row without a   *)
(* name adds nothing.                                                      *)
(***************************************************************************)
C1_TypesThenNamedSchemas ==
  generated.done =>
    /\ Len(generated.list) = 1 + Len(NamedSchemaRows)
    /\ generated.list[1] = _generateCommonTypes
    /\ generated.list[1].schemaName = "_types"
    /\ \A k \in 1..Len(NamedSchemaRows) :
         generated.list[k + 1].schemaName = NamedSchemaRows[k].schema_name

C1_Witness ==
  /\ generated.done
  /\ Len(schemaRows) = 2
  /\ Len(generated.list) = 3
  /\ generated.list[2].schemaName = "crm"
  /\ generated.list[3].schemaName = "shop"

ColumnsByOrdinal(tableRow) ==
  LET own == {c \in catalog.columns :
                c.table_schema = tableRow.table_schema /\ c.table_name = tableRow.table_name}
  IN  [i \in 1..Cardinality(own) |-> CHOOSE c \in own : c.ordinal_position = i]

FailedQueries == {k \in 1..Len(queries) : ~queries[k].ok}

(***************************************************************************)
(* C7: when a catalog query fails during generate(), the failure is logged *)
(* and re-raised, nothing is fetched afterwards, generate() returns no     *)
(* list and no file is written.                                            *)
(***************************************************************************)
C7_FailedGenerationWritesNothing ==
  FailedQueries # {} =>
    /\ FailedQueries = {Len(queries)}
    /\ ~generated.done
    /\ files = <<>>
    /\ loggerLog # <<>>
    /\ Len(thrown) = 1 /\ thrown[1] = loggerLog[Len(loggerLog)][2]
    /\ consoleErrors = thrown
    /\ exitCode = -1
    /\ pc \in {"finally", "theEnd", "exited"}

C7_Witness ==
  /\ pc = "exited"
  /\ FailedQueries # {}
  /\ queries[Len(queries)].method = "columns"
  /\ Len(queries) > 3
  /\ Len(output) = 2
  /\ files = <<>>

(***************************************************************************)
(* C8: once created, the pool is ended exactly once before the process     *)
(* exits; a run in which an error was raised logs it and exits non-zero, a *)
(* run without error exits with 0.                                         *)
(***************************************************************************)
C8_PoolEndedOnceAndExitCode ==
  /\ pool.endCalls <= 1
  /\ pool.endCalls = 1 => pool.created
  /\ pc = "exited" =>
       /\ pool.endCalls = (IF pool.created THEN 1 ELSE 0)
       /\ thrown # <<>> => (exitStatus # 0 /\ consoleErrors = thrown)
       /\ thrown = <<>> => (exitStatus = 0 /\ consoleErrors = <<>>)

C8_Witness ==
  /\ pc = "exited"
  /\ pool.created /\ pool.endCalls = 1
  /\ thrown = <<"EACCES">>
  /\ files # <<>>
  /\ exitStatus = 255

=============================================================================
